---- MODULE Spec2Model ----
(***************************************************************************)
(* on-zero: predicate wrapper (where), permission-check factory            *)
(* (createZeroClient / createZeroServer) and caller-identity contexts.     *)
(*                                                                         *)
(* One process is modelled.  isServer says whether it is the authoritative *)
(* (server) build or a client build.  Synchronous sections of the code are *)
(* run to completion: no other handler interleaves while `pc` is not       *)
(* "idle".                                                                 *)
(***************************************************************************)
EXTENDS Naturals, Sequences, FiniteSets

VARIABLES
    isServer,               \* constants.ts isServer of this process
    permissionStrategy,     \* createZeroClient option
    mutationsPermissions,   \* modelRegistry: table -> registered rule
    authData,               \* state.ts process-wide identity (setAuthData)
    evaluatingPermission,   \* where.ts _evaluatingPermission
    pc,                     \* position inside the optimistic callback
    pending,                \* the optimistic evaluation in progress
    inner,                  \* the predicate the rule "nested" invokes
    last,                   \* the last completed call and what it produced
    act,                    \* the activations (requests, mutations) in flight
    frames,                 \* per activation: the scopes entered inside it, innermost last
    left,                   \* per activation: the nested scope it left last
    push,                   \* per mutation request: its processing and detached tasks
    hook,                   \* one usePermission call site and the query behind it
    instances,              \* the wrappers where() has returned, in order of creation
    WhereRawBuilderMap,     \* where.ts WhereRawBuilderMap
    WhereTableNameMap,      \* where.ts WhereTableNameMap
    lastWhere,              \* the last where() call and what it returned
    invocations,            \* how often wrappers have been invoked so far
    validateQuery,          \* createZeroServer option: the query validation hook
    defaultMutateAuthData,  \* createZeroServer option
    served,                 \* the last query the server resolved for a request
    opened,                 \* the database transactions opened so far
    lastTx                  \* the last transaction(cb) call and how it ended

evalVars == <<isServer, permissionStrategy, mutationsPermissions, authData,
              evaluatingPermission, pc, pending, inner, last>>

ctxVars == <<act, frames, left>>

taskVars == <<push>>

viewVars == <<hook>>

regVars == <<instances, WhereRawBuilderMap, WhereTableNameMap, lastWhere, invocations>>

srvVars == <<validateQuery, defaultMutateAuthData, served, opened, lastTx>>

vars == <<evalVars, ctxVars, taskVars, viewVars, regVars, srvVars>>

(***************************************************************************)
(* Value domains                                                           *)
(***************************************************************************)

\* identities (AuthData | null); "undefined" is an omitted argument and
\* "empty" the object {} that handleQueryRequest substitutes for null
Identities == {"null", "admin", "user"}
AuthArgs == Identities \cup {"undefined"}

Role(a) == IF a = "admin" THEN "admin" ELSE IF a = "user" THEN "user" ELSE "undefined"
Id(a) == IF a = "admin" THEN "A" ELSE IF a = "user" THEN "B" ELSE "undefined"

Unset == "unset"

\* tables of the schema; only some have a registered rule
Tables == {"post", "widget"}

\* args.objOrId: absent, the empty string (falsy), or the id of a row
Targets == {"undefined", "", "r1", "r2"}
Falsy(objOrId) == objOrId \in {"undefined", ""}
Owner(row) == IF row = "r1" THEN "A" ELSE IF row = "r2" THEN "B" ELSE "nobody"

\* user-authored predicate functions
\*   allow    () => true
\*   deny     () => false
\*   isAdmin  (eb, auth) => auth?.role === 'admin'
\*   owner    (eb, auth) => eb.cmp('ownerId', auth?.id)
\*   throws   () => { throw new Error() }
\*   nested   (eb, auth) => inner(eb, auth), inner a wrapper returned by where()
RawFns == {"allow", "deny", "isAdmin", "owner", "throws", "nested"}

\* conditions of the expression builder
NoCond == [op |-> "none", l |-> "", r |-> ""]
And0 == [op |-> "and", l |-> "", r |-> ""]                  \* eb.and()
CmpLit(l, r) == [op |-> "cmpLit", l |-> l, r |-> r]         \* eb.cmpLit(l, '=', r)
Cmp(col, v) == [op |-> "cmp", l |-> col, r |-> v]           \* eb.cmp(col, v)

\* does the condition hold for the row
CondHolds(c, row) ==
    CASE c.op = "and" -> TRUE
      [] c.op = "cmpLit" -> c.l = c.r
      [] c.op = "cmp" -> Owner(row) = c.r
      [] OTHER -> FALSE

\* what a call produces: a boolean, a condition, or a thrown error
OBool(b) == [t |-> "bool", b |-> b, c |-> NoCond, err |-> "", pk |-> "none"]
OCond(c) == [t |-> "cond", b |-> FALSE, c |-> c, err |-> "", pk |-> "none"]
OQuery(c, pk) == [t |-> "cond", b |-> FALSE, c |-> c, err |-> "", pk |-> pk]
OThrow(e) == [t |-> "throw", b |-> FALSE, c |-> NoCond, err |-> e, pk |-> "none"]
ONone == [t |-> "none", b |-> FALSE, c |-> NoCond, err |-> "", pk |-> "none"]

\* a condition some row can satisfy (pk: the row the query is restricted to)
Rows == {"r1", "r2"}
Satisfiable(out) ==
    /\ out.t = "cond"
    /\ IF out.pk = "none" THEN \E row \in Rows : CondHolds(out.c, row)
       ELSE out.pk \in Rows /\ CondHolds(out.c, out.pk)

\* function values: a raw function, or a wrapper returned by where()
Raw(n) == [kind |-> "raw", whereFn |-> n, isServerOnly |-> FALSE, tableName |-> "undefined"]
Wrapped(n, table, so) ==
    [kind |-> "wrapped", whereFn |-> n, isServerOnly |-> so, tableName |-> table]
NoPerm == [kind |-> "undefined", whereFn |-> "", isServerOnly |-> FALSE, tableName |-> "undefined"]
AndFallback == Raw("andFallback")                           \* (e) => e.and()


(***************************************************************************)
(* Scoped contexts as seen by one continuation: the value each store's     *)
(* get() returns there (Unset when no run() is active).                    *)
(***************************************************************************)
CtxIdentities == Identities \cup {"empty"}
MakeCtx(m, q, s) == [mut |-> m, query |-> q, scope |-> s]
TopCtx == MakeCtx(Unset, Unset, Unset)
QueryCtx(a) == MakeCtx(Unset, a, Unset)
MutCtx(a) == MakeCtx(a, Unset, Unset)

\* the three stores: mutatorContext.ts asyncContext and authScopeContext,
\* queryContext.ts asyncContext
Stores == {"mut", "query", "scope"}

\* createAsyncContext: store.get() in a continuation whose contexts are ctx
Get(ctx, store) == ctx[store]

\* createAsyncContext: the contexts inside store.run(value, fn) entered from ctx
RunShared(ctx, store, value) == MakeCtx(value, value, value)
Run(ctx, store, value) == [ctx EXCEPT ![store] = value]

\* a scope entered inside an activation: the store, its value, the contexts outside
NoFrame == [store |-> "none", value |-> Unset, saved |-> TopCtx]
Frame(store, value, saved) == [store |-> store, value |-> value, saved |-> saved]

\* createAsyncContext: the contexts of the caller once fn of run() has completed
RestoreKeepsInner(frame, cur) == cur
Restore(frame, cur) == frame.saved

\* mutatorContext.ts
IsInZeroMutation(ctx) == Get(ctx, "mut") # Unset

\* mutatorContext(): the active mutation context (stood for by its authData), or
\* the throw 'mutatorContext must be called within a mutator'
Returned(v) == [t |-> "ok", v |-> v, err |-> ""]
Thrown(e) == [t |-> "throw", v |-> "", err |-> e]
MutatorContextDefault(ctx) ==
    IF Get(ctx, "mut") = Unset THEN Returned("null") ELSE Returned(Get(ctx, "mut"))
MutatorContext(ctx) ==
    IF Get(ctx, "mut") = Unset THEN Thrown("ContextMissing") ELSE Returned(Get(ctx, "mut"))

\* queryContext.ts
IsInQueryContext(ctx) == Get(ctx, "query") # Unset
QueryAuthData(ctx) == IF ctx.query \in {Unset, "undefined"} THEN "null" ELSE ctx.query

\* state.ts getAuthData(): the identity last stored by ProvideZero
GetAuthData == authData

\* getQueryOrMutatorAuthData.ts
ResolverGlobalOnly(ctx) == GetAuthData
ResolverQueryFirst(ctx) ==
    IF IsInQueryContext(ctx) THEN QueryAuthData(ctx)
    ELSE IF IsInZeroMutation(ctx) THEN MutatorContext(ctx).v
    ELSE GetAuthData
GetQueryOrMutatorAuthData(ctx) ==
    IF IsInZeroMutation(ctx) THEN MutatorContext(ctx).v
    ELSE IF IsInQueryContext(ctx) THEN QueryAuthData(ctx)
    ELSE GetAuthData

\* mutatorContext.ts getScopedAuthData: authScopeContext.get() ?? undefined
GetScopedAuthData(ctx) ==
    IF IsInZeroMutation(ctx) THEN MutatorContext(ctx).v
    ELSE IF Get(ctx, "scope") \in {Unset, "null"} THEN "undefined"
    ELSE Get(ctx, "scope")

\* helpers/getAuth.ts: the default of the wrapper's identity parameter
GetAuth(ctx) == GetQueryOrMutatorAuthData(ctx)

(***************************************************************************)
(* where.ts                                                                *)
(***************************************************************************)

\* where(tableName, builder, isServerOnly) and where(builder)
Where2(tableName, builder, isServerOnly) == Wrapped(builder, tableName, isServerOnly)
Where1(builder) == Wrapped(builder, "undefined", FALSE)

\* WhereRawBuilderMap.get / WhereTableNameMap.get
GetRawWhere(f) == IF f.kind = "wrapped" THEN Raw(f.whereFn) ELSE NoPerm
GetWhereTableName(f) == IF f.kind = "wrapped" THEN f.tableName ELSE "undefined"

\* the functions that call no other predicate
LeafFns == RawFns \ {"nested"}

\* the client no-op of a server-only predicate (part_000: no flag)
ShortCircuitNoFlag(isServerOnly, flag) == ~isServer /\ isServerOnly
ShortCircuitNever(isServerOnly, flag) == FALSE
ShortCircuitOnServer(isServerOnly, flag) == isServerOnly /\ ~flag
\* where.ts:35
ShortCircuit(isServerOnly, flag) == ~isServer /\ isServerOnly /\ ~flag

\* typeof result === 'boolean' ? cmpLit : result
NormalizeKeepBool(out) == out
NormalizeSwapped(out) ==
    IF out.t = "bool"
    THEN (IF out.b THEN OCond(CmpLit("1", "0")) ELSE OCond(CmpLit("0", "0")))
    ELSE out
Normalize(out) ==
    IF out.t = "bool"
    THEN (IF out.b THEN OCond(CmpLit("0", "0")) ELSE OCond(CmpLit("1", "0")))
    ELSE out

\* the evaluation state threaded through one synchronous section:
\*   flag   _evaluatingPermission
\*   calls  the user-authored functions called so far, with their identity
\*   wcalls the wrappers invoked so far
EvalState(flag) == [flag |-> flag, calls |-> <<>>, wcalls |-> <<>>]

RECURSIVE CallRaw(_, _, _, _)
RECURSIVE WrappedWhereFn(_, _, _, _)
RECURSIVE EvaluateOptimistic(_, _, _, _)
RECURSIVE CallFn(_, _, _, _)
RECURSIVE BuildPermissionQuery(_, _, _, _, _, _)

\* whereFn(a, b): the call of a raw function
CallRaw(n, b, st, ctx) ==
    LET st1 == [st EXCEPT !.calls = Append(@, [fn |-> n, auth |-> b])] IN
    CASE n = "allow" -> [out |-> OBool(TRUE), st |-> st1]
      [] n = "deny" -> [out |-> OBool(FALSE), st |-> st1]
      [] n = "isAdmin" -> [out |-> OBool(Role(b) = "admin"), st |-> st1]
      [] n = "owner" -> [out |-> OCond(Cmp("ownerId", Id(b))), st |-> st1]
      [] n = "throws" -> [out |-> OThrow("EvaluationFailure"), st |-> st1]
      [] n = "nested" -> WrappedWhereFn(inner, b, st1, ctx)
      [] n = "reentrant" ->
            \* a rule that has the permission of a "widget" row checked, then
            \* goes on to another predicate
            LET checked == EvaluateOptimistic("widget", "r1", st1, ctx) IN
            IF checked.out.t = "throw" THEN checked
            ELSE WrappedWhereFn(inner, b, checked.st, ctx)
      [] OTHER -> [out |-> OCond(And0), st |-> st]         \* (e) => e.and()

\* the parameter default b = getAuth(): taken for an absent argument only
DefaultAuthNullish(bArg, ctx) == IF bArg \in {"undefined", "null"} THEN GetAuth(ctx) ELSE bArg
DefaultAuth(bArg, ctx) == IF bArg = "undefined" THEN GetAuth(ctx) ELSE bArg

\* wrappedWhereFn(a, b = getAuth())
WrappedWhereFn(w, bArg, st, ctx) ==
    LET b == DefaultAuth(bArg, ctx) IN
    IF ShortCircuit(w.isServerOnly, st.flag)
    THEN [out |-> OCond(And0),
          st |-> [st EXCEPT !.wcalls = Append(@,
                    [w |-> w, auth |-> b, flag |-> st.flag, out |-> OCond(And0), n |-> 0])]]
    ELSE LET r == CallRaw(w.whereFn, b, st, ctx)
             out == Normalize(r.out)
         IN [out |-> out,
             st |-> [r.st EXCEPT !.wcalls = Append(@,
                    [w |-> w, auth |-> b, flag |-> st.flag, out |-> out,
                     n |-> Len(r.st.calls) - Len(st.calls)])]]

\* a call of any function value
CallFn(f, b, st, ctx) ==
    IF f.kind = "wrapped" THEN WrappedWhereFn(f, b, st, ctx)
    ELSE CallRaw(f.whereFn, b, st, ctx)

(***************************************************************************)
(* createPermissions.ts buildPermissionQuery: turns the rule's result for  *)
(* the identity into the condition of a one-row query on objOrId           *)
(***************************************************************************)
BuildPermissionQuery(auth, permissionWhere, objOrId, table, st, ctx) ==
    LET r == CallFn(permissionWhere, auth, st, ctx) IN
    CASE r.out.t = "throw" -> r
      [] r.out.t = "bool" ->
            [out |-> OQuery(CmpLit("true", IF r.out.b THEN "true" ELSE "false"), objOrId),
             st |-> r.st]
      [] OTHER -> [out |-> OQuery(r.out.c, objOrId), st |-> r.st]

\* modelRegistry.ts getMutationsPermissions(table)
GetMutationsPermissions(table) == mutationsPermissions[table]

(***************************************************************************)
(* Activations: one call chain each, entered through a store's run() and   *)
(* suspended at awaits.  Bounds of the model.                              *)
(***************************************************************************)
MaxTasks == 2
MaxResumes == 2
Tasks == 1..MaxTasks

NoActivation == [state |-> "new", kind |-> "none", ident |-> "null", ctx |-> TopCtx,
                 resumes |-> 0, seen |-> {}]

(***************************************************************************)
(* The record of the last completed call                                   *)
(***************************************************************************)
Strategies == {"optimistic", "optimistic-deny", "optimistic-allow"}

NoPending == [table |-> "", target |-> "undefined", rawPerm |-> NoPerm,
              out |-> ONone, calls |-> <<>>, wcalls |-> <<>>]

NoLast == [op |-> "none", fn |-> NoPerm, table |-> "", target |-> "undefined",
           auth |-> "undefined", ctx |-> TopCtx, out |-> ONone,
           calls |-> <<>>, wcalls |-> <<>>, afterThrow |-> FALSE,
           resolver |-> "undefined"]

\* did the call before this one end in a throw out of an optimistic evaluation
ThrewJustNow == last.op = "check" /\ last.out.t = "throw"

Done(op, fn, table, target, auth, ctx, r) ==
    [op |-> op, fn |-> fn, table |-> table, target |-> target, auth |-> auth,
     ctx |-> ctx, out |-> r.out, calls |-> r.st.calls, wcalls |-> r.st.wcalls,
     afterThrow |-> ThrewJustNow,
     resolver |-> GetQueryOrMutatorAuthData(ctx)]

\* the wrappers the application defines
AllWrappers ==
    {Where2("post", n, so) : n \in RawFns, so \in BOOLEAN}
        \cup {Where1(n) : n \in RawFns}

\* the contexts a predicate is invoked in: none, a query request's, a mutation's
InvokeCtxs == {TopCtx, QueryCtx("empty"), QueryCtx("user"), MutCtx("admin")}

(***************************************************************************)
(* where.ts: the wrappers as instances.  Every where() call returns a new  *)
(* closure; the two maps are keyed by the function given to them.          *)
(***************************************************************************)
MaxWrappers == 2
MaxInvocations == 2

\* the functions of this part: user-authored ones and wrapper instances
RegFns == {"deny", "owner"}
RawVal(n) == [kind |-> "raw", name |-> n, id |-> 0]
WrapVal(i) == [kind |-> "wrapper", name |-> "", id |-> i]
Absent == [kind |-> "undefined", name |-> "", id |-> 0]

\* every function that can be handed to a lookup
RegKeys == {RawVal(n) : n \in RegFns} \cup {WrapVal(i) : i \in 1..MaxWrappers}

\* no where() call yet
NoWhere == [shape |-> 0, table |-> "undefined", builder |-> Absent, result |-> Absent,
            registered |-> 0]

\* a mutation request not yet received
\* the fields of an identity object; Missing for a field it does not have.
\* MutateAuthData = Pick<AuthData, 'email' | 'id'> & Partial<AuthData>: "idOnly" is
\* an identity without a role
Missing == "missing"
AuthFieldNames == {"id", "role"}
NoFields == [f \in AuthFieldNames |-> Missing]
Fields(a) ==
    CASE a = "admin" -> [id |-> "A", role |-> "admin"]
      [] a = "user" -> [id |-> "B", role |-> "user"]
      [] a = "idOnly" -> [id |-> "C", role |-> Missing]
      [] OTHER -> NoFields

\* { ...d, ...a }
Spread(d, a) == [f \in AuthFieldNames |-> IF a[f] # Missing THEN a[f] ELSE d[f]]

\* the defaultMutateAuthData an application configures: the default {} or a
\* system identity
DefaultsMutateAuthData == {NoFields, [id |-> "S", role |-> "admin"]}

\* the validateQuery hooks an application configures: none, one that throws for an
\* anonymous request, one that throws for every query
Hooks == {"undefined", "requireAuth", "rejectAll"}

\* a database transaction: the one a mutation context carries (context.tx), or
\* the n-th one opened by zeroDb.transaction
ContextTx(owner) == [src |-> "context", owner |-> owner, n |-> 0]
OpenedTx(n) == [src |-> "opened", owner |-> "", n |-> n]
NoTransaction == [src |-> "none", owner |-> "", n |-> 0]

\* no transaction(cb) call yet
NoTx == [ctx |-> TopCtx, cbThrows |-> FALSE, ranOn |-> NoTransaction,
         openedBefore |-> 0, outcome |-> Returned("")]

\* no query resolved yet
NoServed == [name |-> "", auth |-> "undefined", params |-> "undefined",
             hookCalls |-> <<>>, executed |-> FALSE, err |-> ""]

NoPush == [state |-> "new", via |-> "none", authData |-> "undefined", skip |-> FALSE,
           queued |-> 0, running |-> 0, scope |-> Unset, seen |-> {},
           startedWhile |-> "none", runsWith |-> NoFields,
           arg |-> "undefined", caller |-> TopCtx,
           outcome |-> [t |-> "pending", v |-> "", err |-> ""],
           response |-> "", tasksReturned |-> 0, started |-> 0, failed |-> 0]

\* usePermission not yet rendered: no target, no query result
NoHook == [table |-> "post", objOrId |-> "undefined", enabled |-> FALSE,
           phase |-> "unknown", guess |-> "none", data |-> "none", server |-> "none",
           sawAuthoritative |-> FALSE, value |-> "false"]

(***************************************************************************)
(* Initial state: module load, models registered, client or server created *)
(***************************************************************************)
Init ==
    /\ isServer \in BOOLEAN
    /\ permissionStrategy \in Strategies
    /\ \E n \in RawFns, so \in BOOLEAN :
          mutationsPermissions =
              [t \in Tables |-> IF t = "post" THEN Where2("post", n, so) ELSE NoPerm]
    /\ authData = "null"
    /\ evaluatingPermission = FALSE
    /\ pc = "idle"
    /\ pending = NoPending
    /\ inner = Where2("post", "isAdmin", TRUE)
    /\ last = NoLast
    /\ act = [t \in Tasks |-> NoActivation]
    /\ frames = [t \in Tasks |-> <<>>]
    /\ left = [t \in Tasks |-> NoFrame]
    /\ push = [t \in Tasks |-> NoPush]
    /\ hook = NoHook
    /\ instances = <<>>
    /\ WhereRawBuilderMap = [k \in RegKeys |-> Absent]
    /\ WhereTableNameMap = [k \in RegKeys |-> "undefined"]
    /\ lastWhere = NoWhere
    /\ invocations = 0
    /\ validateQuery = "undefined"
    /\ defaultMutateAuthData = NoFields
    /\ served = NoServed
    /\ opened = 0
    /\ lastTx = NoTx

(***************************************************************************)
(* queryContext.ts ProvideZero: setAuthData(authDataIn ?? null)            *)
(***************************************************************************)
SetAuthData(a) ==
    /\ pc = "idle"
    /\ authData' = a
    /\ UNCHANGED <<isServer, permissionStrategy, mutationsPermissions,
                   evaluatingPermission, pc, pending, inner, last>>
    /\ UNCHANGED <<ctxVars, taskVars, viewVars, regVars, srvVars>>

(***************************************************************************)
(* where.ts: a wrapper is invoked by a query (builder, identity-or-default)*)
(***************************************************************************)
InvokeWhere(w, b, ctx) ==
    /\ pc = "idle"
    /\ LET r == WrappedWhereFn(w, b, EvalState(evaluatingPermission), ctx) IN
          /\ last' = Done("where", w, GetWhereTableName(w), "undefined", b, ctx, r)
          /\ evaluatingPermission' = r.st.flag
    /\ UNCHANGED <<isServer, permissionStrategy, mutationsPermissions, authData,
                   pc, pending, inner>>
    /\ UNCHANGED <<ctxVars, taskVars, viewVars, regVars, srvVars>>

(***************************************************************************)
(* queryContext.ts createPermissionCheckFn(table): fn(args)                *)
(***************************************************************************)

\* const rawPerm = perm ? getRawWhere(perm) || perm : perm
RawPermOfWrapped(perm) == perm
RawPermOf(perm) ==
    IF perm # NoPerm
    THEN (IF GetRawWhere(perm) # NoPerm THEN GetRawWhere(perm) ELSE perm)
    ELSE perm

\* x || ((e) => e.and())
OrAndFallback(perm) == IF perm # NoPerm THEN perm ELSE AndFallback

\* base.where((eb) => eb.cmpLit(true, '=', false)).one()
DenyQueryTrue == OQuery(CmpLit("true", "true"), "none")
DenyQuery == OQuery(CmpLit("true", "false"), "none")

\* if (!args.objOrId) return <the query no row satisfies>
CheckFnNoTarget(table, objOrId) ==
    /\ pc = "idle"
    /\ Falsy(objOrId)
    /\ last' = Done("check", GetMutationsPermissions(table), table, objOrId,
                    GetAuthData, TopCtx,
                    [out |-> DenyQuery,
                     st |-> EvalState(evaluatingPermission)])
    /\ UNCHANGED <<isServer, permissionStrategy, mutationsPermissions, authData,
                   evaluatingPermission, pc, pending, inner>>
    /\ UNCHANGED <<ctxVars, taskVars, viewVars, regVars, srvVars>>

\* strategy 'optimistic': the where() callback starts, setEvaluatingPermission(true)
CheckFnOptimistic(table, objOrId) ==
    /\ pc = "idle"
    /\ ~Falsy(objOrId)
    /\ permissionStrategy = "optimistic"
    /\ evaluatingPermission' = TRUE
    /\ pending' = [NoPending EXCEPT !.table = table, !.target = objOrId,
                                    !.rawPerm = RawPermOf(GetMutationsPermissions(table))]
    /\ pc' = "try"
    /\ last' = NoLast
    /\ UNCHANGED <<isServer, permissionStrategy, mutationsPermissions, authData, inner>>
    /\ UNCHANGED <<ctxVars, taskVars, viewVars, regVars, srvVars>>

\* try { return buildPermissionQuery(getQueryOrMutatorAuthData(), eb, rawPerm || ..., ...) }
OptimisticTry ==
    /\ pc = "try"
    /\ LET r == BuildPermissionQuery(GetQueryOrMutatorAuthData(TopCtx),
                                     OrAndFallback(pending.rawPerm), pending.target,
                                     pending.table, EvalState(evaluatingPermission), TopCtx)
       IN /\ pending' = [pending EXCEPT !.out = r.out, !.calls = r.st.calls,
                                        !.wcalls = r.st.wcalls]
          /\ evaluatingPermission' = r.st.flag
    /\ pc' = "finally"
    /\ UNCHANGED <<isServer, permissionStrategy, mutationsPermissions, authData,
                   inner, last>>
    /\ UNCHANGED <<ctxVars, taskVars, viewVars, regVars, srvVars>>

\* the flag once the callback is left, by return or by throw
FlagAfterNoFinally(out, flag) == IF out.t = "throw" THEN flag ELSE FALSE
FlagAfterKeeps(out, flag) == flag
\* finally { setEvaluatingPermission(false) }
FlagAfterEvaluation(out, flag) == FALSE

\* the callback as one synchronous call: setEvaluatingPermission(true), the
\* evaluation, and the finally
EvaluateOptimistic(table, objOrId, st, ctx) ==
    LET r == BuildPermissionQuery(GetQueryOrMutatorAuthData(ctx),
                                  OrAndFallback(RawPermOf(GetMutationsPermissions(table))),
                                  objOrId, table, [st EXCEPT !.flag = TRUE], ctx)
    IN [out |-> r.out,
        st |-> [r.st EXCEPT !.flag = FlagAfterEvaluation(r.out, r.st.flag)]]

OptimisticFinally ==
    /\ pc = "finally"
    /\ evaluatingPermission' = FlagAfterEvaluation(pending.out, evaluatingPermission)
    /\ last' = Done("check", GetMutationsPermissions(pending.table), pending.table,
                    pending.target, GetAuthData, TopCtx,
                    [out |-> pending.out,
                     st |-> [flag |-> FALSE, calls |-> pending.calls,
                             wcalls |-> pending.wcalls]])
    /\ pending' = NoPending
    /\ pc' = "idle"
    /\ UNCHANGED <<isServer, permissionStrategy, mutationsPermissions, authData, inner>>
    /\ UNCHANGED <<ctxVars, taskVars, viewVars, regVars, srvVars>>

\* strategy 'optimistic-deny'
CheckFnDeny(table, objOrId) ==
    /\ pc = "idle"
    /\ ~Falsy(objOrId)
    /\ permissionStrategy = "optimistic-deny"
    /\ last' = Done("check", GetMutationsPermissions(table), table, objOrId,
                    GetAuthData, TopCtx,
                    [out |-> DenyQuery,
                     st |-> EvalState(evaluatingPermission)])
    /\ UNCHANGED <<isServer, permissionStrategy, mutationsPermissions, authData,
                   evaluatingPermission, pc, pending, inner>>
    /\ UNCHANGED <<ctxVars, taskVars, viewVars, regVars, srvVars>>

\* strategy 'optimistic-allow': the wrapped perm is passed as it is
CheckFnAllow(table, objOrId) ==
    /\ pc = "idle"
    /\ ~Falsy(objOrId)
    /\ permissionStrategy = "optimistic-allow"
    /\ LET r == BuildPermissionQuery(GetQueryOrMutatorAuthData(TopCtx),
                                     OrAndFallback(GetMutationsPermissions(table)),
                                     objOrId, table, EvalState(evaluatingPermission), TopCtx)
       IN /\ last' = Done("check", GetMutationsPermissions(table), table, objOrId,
                          GetAuthData, TopCtx, r)
          /\ evaluatingPermission' = r.st.flag
    /\ UNCHANGED <<isServer, permissionStrategy, mutationsPermissions, authData,
                   pc, pending, inner>>
    /\ UNCHANGED <<ctxVars, taskVars, viewVars, regVars, srvVars>>

(***************************************************************************)
(* createZeroServer.ts handleQueryRequest, a query named permission.<table>*)
(***************************************************************************)
HandleQueryRequestPermission(reqAuth, table, objOrId) ==
    /\ pc = "idle"
    /\ isServer
    /\ LET ctx == QueryCtx(IF reqAuth = "null" THEN "empty" ELSE reqAuth)
           perm == GetMutationsPermissions(table)
           r == IF perm = NoPerm
                THEN [out |-> OThrow("UnregisteredRule"),
                      st |-> EvalState(evaluatingPermission)]
                ELSE BuildPermissionQuery(reqAuth, perm, objOrId, table,
                                          EvalState(evaluatingPermission), ctx)
       IN /\ last' = Done("server", perm, table, objOrId, reqAuth, ctx, r)
          /\ evaluatingPermission' = r.st.flag
    /\ UNCHANGED <<isServer, permissionStrategy, mutationsPermissions, authData,
                   pc, pending, inner>>
    /\ UNCHANGED <<ctxVars, taskVars, viewVars, regVars, srvVars>>

\* the server-only predicates a page evaluates between permission checks
PagePredicates == {inner, GetMutationsPermissions("post")}

Next ==
    \/ \E a \in Identities : SetAuthData(a)
    \/ \E w \in PagePredicates : InvokeWhere(w, "undefined", TopCtx)
    \/ \E table \in Tables, objOrId \in Targets : CheckFnNoTarget(table, objOrId)
    \/ \E table \in Tables, objOrId \in Targets : CheckFnOptimistic(table, objOrId)
    \/ OptimisticTry
    \/ OptimisticFinally
    \/ \E table \in Tables, objOrId \in Targets : CheckFnDeny(table, objOrId)
    \/ \E table \in Tables, objOrId \in Targets : CheckFnAllow(table, objOrId)
    \/ \E reqAuth \in Identities, table \in Tables, objOrId \in Targets :
          HandleQueryRequestPermission(reqAuth, table, objOrId)

Spec == Init /\ [][Next]_vars

(***************************************************************************)
(* The wrapper on its own: every wrapper, identity argument and context,   *)
(* at top level and from inside an optimistic evaluation of "nested"       *)
(***************************************************************************)
InitWhere ==
    /\ isServer \in BOOLEAN
    /\ permissionStrategy = "optimistic"
    /\ mutationsPermissions =
          [t \in Tables |-> IF t = "post" THEN Where2("post", "nested", TRUE) ELSE NoPerm]
    /\ authData = "null"
    /\ evaluatingPermission = FALSE
    /\ pc = "idle"
    /\ pending = NoPending
    /\ \E n \in LeafFns, so \in BOOLEAN : inner = Where2("post", n, so)
    /\ last = NoLast
    /\ act = [t \in Tasks |-> NoActivation]
    /\ frames = [t \in Tasks |-> <<>>]
    /\ left = [t \in Tasks |-> NoFrame]
    /\ push = [t \in Tasks |-> NoPush]
    /\ hook = NoHook
    /\ instances = <<>>
    /\ WhereRawBuilderMap = [k \in RegKeys |-> Absent]
    /\ WhereTableNameMap = [k \in RegKeys |-> "undefined"]
    /\ lastWhere = NoWhere
    /\ invocations = 0
    /\ validateQuery = "undefined"
    /\ defaultMutateAuthData = NoFields
    /\ served = NoServed
    /\ opened = 0
    /\ lastTx = NoTx

\* an explicit identity at top level, or the default in each context
InvokeArgs ==
    {<<b, TopCtx>> : b \in Identities} \cup {<<"undefined", ctx>> : ctx \in InvokeCtxs}

NextWhere ==
    \/ \E a \in Identities : SetAuthData(a)
    \/ \E w \in AllWrappers, x \in InvokeArgs : InvokeWhere(w, x[1], x[2])
    \/ \E objOrId \in Targets : CheckFnOptimistic("post", objOrId)
    \/ OptimisticTry
    \/ OptimisticFinally

SpecWhere == InitWhere /\ [][NextWhere]_vars

(***************************************************************************)
(* Rules that invoke other predicates, directly or after having another    *)
(* table's permission checked from inside the rule                         *)
(***************************************************************************)
NestingFns == {"nested", "reentrant"}

InitNested ==
    /\ isServer \in BOOLEAN
    /\ permissionStrategy = "optimistic"
    /\ \E rule \in NestingFns, n \in LeafFns :
          mutationsPermissions =
              [t \in Tables |-> IF t = "post" THEN Where2("post", rule, TRUE)
                                ELSE Where2("widget", n, TRUE)]
    /\ authData = "null"
    /\ evaluatingPermission = FALSE
    /\ pc = "idle"
    /\ pending = NoPending
    /\ \E n \in LeafFns, so \in BOOLEAN : inner = Where2("post", n, so)
    /\ last = NoLast
    /\ act = [t \in Tasks |-> NoActivation]
    /\ frames = [t \in Tasks |-> <<>>]
    /\ left = [t \in Tasks |-> NoFrame]
    /\ push = [t \in Tasks |-> NoPush]
    /\ hook = NoHook
    /\ instances = <<>>
    /\ WhereRawBuilderMap = [k \in RegKeys |-> Absent]
    /\ WhereTableNameMap = [k \in RegKeys |-> "undefined"]
    /\ lastWhere = NoWhere
    /\ invocations = 0
    /\ validateQuery = "undefined"
    /\ defaultMutateAuthData = NoFields
    /\ served = NoServed
    /\ opened = 0
    /\ lastTx = NoTx

NextNested ==
    \/ \E a \in Identities : SetAuthData(a)
    \/ \E w \in PagePredicates : InvokeWhere(w, "undefined", TopCtx)
    \/ \E objOrId \in Targets : CheckFnOptimistic("post", objOrId)
    \/ OptimisticTry
    \/ OptimisticFinally

SpecNested == InitNested /\ [][NextNested]_vars

(***************************************************************************)
(* Concurrent activations.  Each runs its synchronous parts to completion  *)
(* and is suspended in between; whenever it runs it asks the identity      *)
(* resolver who the caller is.                                             *)
(***************************************************************************)

\* createAsyncContext: get() in a continuation of activation t returns what the
\* run() that started t established
CurrentCtx(t) == act[t].ctx

\* mutatorContext.ts runWithContext(context, fn) with context.authData = a
RunWithContext(t, a) ==
    /\ pc = "idle"
    /\ act[t].state = "new"
    /\ LET ctx == Run(TopCtx, "mut", a) IN
          act' = [act EXCEPT ![t] = [state |-> "suspended", kind |-> "mutation",
                                     ident |-> a, ctx |-> ctx, resumes |-> 0,
                                     seen |-> {GetQueryOrMutatorAuthData(ctx)}]]
    /\ UNCHANGED <<frames, left>>
    /\ UNCHANGED <<evalVars, taskVars, viewVars, regVars, srvVars>>

\* queryContext.ts runWithQueryContext({ authData: a }, fn)
RunWithQueryContext(t, a) ==
    /\ pc = "idle"
    /\ act[t].state = "new"
    /\ LET ctx == Run(TopCtx, "query", a) IN
          act' = [act EXCEPT ![t] = [state |-> "suspended", kind |-> "query",
                                     ident |-> a, ctx |-> ctx, resumes |-> 0,
                                     seen |-> {GetQueryOrMutatorAuthData(ctx)}]]
    /\ UNCHANGED <<frames, left>>
    /\ UNCHANGED <<evalVars, taskVars, viewVars, regVars, srvVars>>

\* the awaited operation settles and the activation continues up to its next await
Resume(t) ==
    /\ pc = "idle"
    /\ act[t].state = "suspended"
    /\ act[t].resumes < MaxResumes
    /\ act' = [act EXCEPT ![t].resumes = @ + 1,
                          ![t].seen = @ \cup {GetQueryOrMutatorAuthData(CurrentCtx(t))}]
    /\ UNCHANGED <<frames, left>>
    /\ UNCHANGED <<evalVars, taskVars, viewVars, regVars, srvVars>>

\* the store an activation was entered through
StoreOf(kind) ==
    IF kind = "mutation" THEN "mut" ELSE IF kind = "query" THEN "query" ELSE "scope"

\* fn returns: the activation is over and its caller continues outside the run()
Complete(t) ==
    /\ pc = "idle"
    /\ act[t].state = "suspended"
    /\ frames[t] = <<>>
    /\ act' = [act EXCEPT ![t].state = "done",
                          ![t].ctx = Restore(Frame(StoreOf(act[t].kind), act[t].ident, TopCtx),
                                             act[t].ctx)]
    /\ UNCHANGED <<frames, left>>
    /\ UNCHANGED <<evalVars, taskVars, viewVars, regVars, srvVars>>

InitCtx ==
    /\ isServer \in BOOLEAN
    /\ permissionStrategy = "optimistic"
    /\ mutationsPermissions =
          [t \in Tables |-> IF t = "post" THEN Where2("post", "isAdmin", TRUE) ELSE NoPerm]
    /\ authData = "null"
    /\ evaluatingPermission = FALSE
    /\ pc = "idle"
    /\ pending = NoPending
    /\ inner = Where2("post", "isAdmin", TRUE)
    /\ last = NoLast
    /\ act = [t \in Tasks |-> NoActivation]
    /\ frames = [t \in Tasks |-> <<>>]
    /\ left = [t \in Tasks |-> NoFrame]
    /\ push = [t \in Tasks |-> NoPush]
    /\ hook = NoHook
    /\ instances = <<>>
    /\ WhereRawBuilderMap = [k \in RegKeys |-> Absent]
    /\ WhereTableNameMap = [k \in RegKeys |-> "undefined"]
    /\ lastWhere = NoWhere
    /\ invocations = 0
    /\ validateQuery = "undefined"
    /\ defaultMutateAuthData = NoFields
    /\ served = NoServed
    /\ opened = 0
    /\ lastTx = NoTx

NextCtx ==
    \/ \E a \in Identities : SetAuthData(a)
    \/ \E t \in Tasks, a \in Identities : RunWithContext(t, a)
    \/ \E t \in Tasks, a \in Identities : RunWithQueryContext(t, a)
    \/ \E t \in Tasks : Resume(t)
    \/ \E t \in Tasks : Complete(t)

SpecCtx == InitCtx /\ [][NextCtx]_vars

(***************************************************************************)
(* Scopes entered inside an activation: the run functions of the three     *)
(* stores called from code that already runs in some scope (a mutation     *)
(* started from a query handler or from a detached task, a task's scope).  *)
(***************************************************************************)
MaxDepth == 2

\* mutatorContext.ts runWithAuthScope(authData, fn)
RunWithAuthScope(t, a) ==
    /\ pc = "idle"
    /\ act[t].state = "new"
    /\ LET ctx == Run(TopCtx, "scope", a) IN
          act' = [act EXCEPT ![t] = [state |-> "suspended", kind |-> "scope",
                                     ident |-> a, ctx |-> ctx, resumes |-> 0,
                                     seen |-> {}]]
    /\ UNCHANGED <<frames, left>>
    /\ UNCHANGED <<evalVars, taskVars, viewVars, regVars, srvVars>>

\* runWithContext / runWithQueryContext / runWithAuthScope called with value v by
\* code of activation t: fn starts in the new scope
EnterScope(t, store, v) ==
    /\ pc = "idle"
    /\ act[t].state = "suspended"
    /\ Len(frames[t]) < MaxDepth
    /\ frames' = [frames EXCEPT ![t] = Append(@, Frame(store, v, act[t].ctx))]
    /\ act' = [act EXCEPT ![t].ctx = Run(act[t].ctx, store, v)]
    /\ left' = [left EXCEPT ![t] = NoFrame]
    /\ UNCHANGED <<evalVars, taskVars, viewVars, regVars, srvVars>>

\* fn of the innermost run() completes and the code around it continues
LeaveScope(t) ==
    /\ pc = "idle"
    /\ act[t].state = "suspended"
    /\ frames[t] # <<>>
    /\ LET f == frames[t][Len(frames[t])] IN
          /\ act' = [act EXCEPT ![t].ctx = Restore(f, act[t].ctx)]
          /\ left' = [left EXCEPT ![t] = f]
    /\ frames' = [frames EXCEPT ![t] = SubSeq(@, 1, Len(@) - 1)]
    /\ UNCHANGED <<evalVars, taskVars, viewVars, regVars, srvVars>>

\* one activation is followed through its nested scopes; what concurrent
\* activations see of each other is the subject of SpecCtx
Chain == 1

NextScope ==
    \/ \E a \in Identities : SetAuthData(a)
    \/ \E a \in Identities : RunWithContext(Chain, a)
    \/ \E a \in Identities : RunWithQueryContext(Chain, a)
    \/ \E a \in Identities : RunWithAuthScope(Chain, a)
    \/ \E store \in Stores, v \in Identities : EnterScope(Chain, store, v)
    \/ LeaveScope(Chain)
    \/ Complete(Chain)

SpecScope == InitCtx /\ [][NextScope]_vars

(***************************************************************************)
(* createZeroServer.ts: mutation requests and the detached tasks they      *)
(* queue.  handleMutationRequest serves a push of a client, runMutate a    *)
(* zeroServer.mutate.<model>.<mutator>(arg, authData) call of server code. *)
(***************************************************************************)
MaxQueued == 2

\* runMutate: if (!authData) { const scoped = getScopedAuthData(); if (scoped) ... }
ResolveMutateAuth(authArg, ctx) ==
    IF authArg \in {"undefined", "null"}
    THEN (IF GetScopedAuthData(ctx) \notin {"undefined", "null"}
          THEN GetScopedAuthData(ctx) ELSE authArg)
    ELSE authArg

\* the value the tasks' auth-only scope is entered with:
\* runWithAuthScope(authData, task) and runWithAuthScope(authData ?? null, t)
TaskScopeOf(via, a) ==
    IF via = "mutate" /\ a = "undefined" THEN "null" ELSE a

\* the contexts server code calls zeroServer.mutate from: none, a detached task of
\* an admin's or of an anonymous request
MutateCallers == {TopCtx, Run(TopCtx, "scope", "admin"), Run(TopCtx, "scope", "null")}

\* createMutators({ ..., authData: { ...defaultMutateAuthData, ...authData } })
MutatorsAuthData(default, a) == Spread(default, Fields(a))

\* handleMutationRequest({ authData, request, skipAsyncTasks }) up to
\* await processor.process(mutators, request)
HandleMutationRequest(r, a, skip) ==
    /\ pc = "idle"
    /\ push[r].state = "new"
    /\ push' = [push EXCEPT ![r] = [NoPush EXCEPT !.state = "processing", !.via = "push",
                                               !.authData = a, !.skip = skip,
                                               !.runsWith = Fields(a)]]
    /\ UNCHANGED <<evalVars, ctxVars, viewVars, regVars, srvVars>>

\* runMutate(modelName, mutatorName, mutatorArg, authData) up to await transaction(...)
RunMutate(r, authArg, ctx) ==
    /\ pc = "idle"
    /\ push[r].state = "new"
    /\ LET resolved == ResolveMutateAuth(authArg, ctx) IN
          push' = [push EXCEPT ![r] = [NoPush EXCEPT
                      !.state = "processing", !.via = "mutate", !.authData = resolved,
                      !.arg = authArg, !.caller = ctx,
                      !.runsWith = MutatorsAuthData(defaultMutateAuthData, resolved)]]
    /\ UNCHANGED <<evalVars, ctxVars, viewVars, regVars, srvVars>>

\* a mutator of the request pushes a follow-up onto asyncTasks
QueueTask(r) ==
    /\ pc = "idle"
    /\ push[r].state = "processing"
    /\ push[r].queued < MaxQueued
    /\ push' = [push EXCEPT ![r].queued = @ + 1]
    /\ UNCHANGED <<evalVars, ctxVars, viewVars, regVars, srvVars>>

\* asyncTasks.map((task) => runWithAuthScope(authData, task)): how many tasks are
\* started, all of them at once, unless skipAsyncTasks or nothing was queued
StartedTasksUntilFailure(skip, queued) == IF ~skip /\ queued > 0 THEN 1 ELSE 0
StartedTasks(skip, queued) == IF ~skip /\ queued > 0 THEN queued ELSE 0

\* what await processor.process(mutators, request) gives: the push was applied, or
\* the response reports a rejected mutation; runMutate has no response
ResponsesOf(via) == IF via = "push" THEN {"applied", "rejected"} ELSE {"undefined"}

\* return { response, asyncTasks } of handleMutationRequest; runMutate returns nothing
ReturnOf(via, response) == Returned(response)

\* .catch((err) => { console.error(...) }): a rejected task is logged
AfterTaskFailureRejects(outcome) == Thrown("TaskError")
AfterTaskFailure(outcome) == outcome

\* the await returns: Promise.all(asyncTasks.map((task) => runWithAuthScope(authData, task)))
\* starts every queued task, unless skipAsyncTasks or nothing was queued
FinishProcessing(r) ==
    /\ pc = "idle"
    /\ push[r].state = "processing"
    /\ \E response \in ResponsesOf(push[r].via) :
       IF StartedTasks(push[r].skip, push[r].queued) > 0
       THEN push' = [push EXCEPT ![r].state = "detached",
                                 ![r].running = StartedTasks(push[r].skip, push[r].queued),
                                 ![r].started = StartedTasks(push[r].skip, push[r].queued),
                                 ![r].scope = TaskScopeOf(push[r].via, push[r].authData),
                                 ![r].startedWhile = "completed",
                                 ![r].response = response,
                                 ![r].outcome = ReturnOf(push[r].via, response),
                                 ![r].tasksReturned = push[r].queued]
       ELSE push' = [push EXCEPT ![r].state = "done",
                                 ![r].response = response,
                                 ![r].outcome = ReturnOf(push[r].via, response),
                                 ![r].tasksReturned = push[r].queued]
    /\ UNCHANGED <<evalVars, ctxVars, viewVars, regVars, srvVars>>

\* a running task of request r continues and asks getScopedAuthData()
TaskStep(r) ==
    /\ pc = "idle"
    /\ push[r].state = "detached"
    /\ push[r].running > 0
    /\ LET got == GetScopedAuthData(Run(TopCtx, "scope", push[r].scope)) IN
          /\ got \notin push[r].seen
          /\ push' = [push EXCEPT ![r].seen = @ \cup {got}]
    /\ UNCHANGED <<evalVars, ctxVars, viewVars, regVars, srvVars>>

\* a task of request r settles
TaskDone(r) ==
    /\ pc = "idle"
    /\ push[r].state = "detached"
    /\ push[r].running > 0
    /\ push' = [push EXCEPT ![r].running = @ - 1,
                             ![r].state = IF push[r].running = 1 THEN "done" ELSE @]
    /\ UNCHANGED <<evalVars, ctxVars, viewVars, regVars, srvVars>>

\* a task of request r rejects
TaskFail(r) ==
    /\ pc = "idle"
    /\ push[r].state = "detached"
    /\ push[r].running > 0
    /\ push' = [push EXCEPT ![r].running = @ - 1,
                             ![r].failed = @ + 1,
                             ![r].outcome = AfterTaskFailure(@),
                             ![r].state = IF push[r].running = 1 THEN "done" ELSE @]
    /\ UNCHANGED <<evalVars, ctxVars, viewVars, regVars, srvVars>>

InitTasks ==
    /\ InitCtx
    /\ isServer

NextTasks ==
    \/ \E r \in Tasks, a \in Identities, skip \in BOOLEAN : HandleMutationRequest(r, a, skip)
    \/ \E r \in Tasks, a \in {"undefined", "admin", "user"}, ctx \in MutateCallers :
          RunMutate(r, a, ctx)
    \/ \E r \in Tasks : QueueTask(r)
    \/ \E r \in Tasks : FinishProcessing(r)
    \/ \E r \in Tasks : TaskStep(r)
    \/ \E r \in Tasks : TaskDone(r)
    \/ \E r \in Tasks : TaskFail(r)

SpecTasks == InitTasks /\ [][NextTasks]_vars

\* one push request followed from handleMutationRequest to the end of its tasks
NextPush ==
    \/ \E a \in Identities, skip \in BOOLEAN : HandleMutationRequest(Chain, a, skip)
    \/ QueueTask(Chain)
    \/ FinishProcessing(Chain)
    \/ TaskStep(Chain)
    \/ TaskDone(Chain)
    \/ TaskFail(Chain)

SpecPush == InitTasks /\ [][NextPush]_vars

(***************************************************************************)
(* createZeroServer.ts zeroServer.mutate with a configured default         *)
(* identity: one call followed from runMutate to its detached tasks        *)
(***************************************************************************)
MutateArgs == {"undefined", "admin", "user", "idOnly"}

\* the contexts zeroServer.mutate is called from here: also a user's task, a
\* mutator of a user's or of an anonymous request, a mutator entered from a task
MutateCallersAll ==
    MutateCallers \cup {Run(TopCtx, "scope", "user"), MutCtx("user"), MutCtx("null"),
                        Run(Run(TopCtx, "scope", "user"), "mut", "admin")}

InitMutate ==
    /\ isServer = TRUE
    /\ permissionStrategy = "optimistic"
    /\ mutationsPermissions =
          [t \in Tables |-> IF t = "post" THEN Where2("post", "isAdmin", TRUE) ELSE NoPerm]
    /\ authData = "null"
    /\ evaluatingPermission = FALSE
    /\ pc = "idle"
    /\ pending = NoPending
    /\ inner = Where2("post", "isAdmin", TRUE)
    /\ last = NoLast
    /\ act = [t \in Tasks |-> NoActivation]
    /\ frames = [t \in Tasks |-> <<>>]
    /\ left = [t \in Tasks |-> NoFrame]
    /\ push = [t \in Tasks |-> NoPush]
    /\ hook = NoHook
    /\ instances = <<>>
    /\ WhereRawBuilderMap = [k \in RegKeys |-> Absent]
    /\ WhereTableNameMap = [k \in RegKeys |-> "undefined"]
    /\ lastWhere = NoWhere
    /\ invocations = 0
    /\ validateQuery = "undefined"
    /\ defaultMutateAuthData \in DefaultsMutateAuthData
    /\ served = NoServed
    /\ opened = 0
    /\ lastTx = NoTx

NextMutate ==
    \/ \E a \in MutateArgs, ctx \in MutateCallersAll : RunMutate(Chain, a, ctx)
    \/ QueueTask(Chain)
    \/ FinishProcessing(Chain)
    \/ TaskStep(Chain)
    \/ TaskDone(Chain)
    \/ TaskFail(Chain)

SpecMutate == InitMutate /\ [][NextMutate]_vars

(***************************************************************************)
(* createZeroServer.ts transaction(cb), called by server code inside and   *)
(* outside the activations of SpecCtx                                      *)
(***************************************************************************)
MaxOpened == 2

\* if (isInZeroMutation()) { const { tx } = mutatorContext(); return await query(tx) }
UsesContextTxNever(ctx) == FALSE
UsesContextTx(ctx) == IsInZeroMutation(ctx)

\* what cb's promise settles with
CallbackOutcome(cbThrows) == IF cbThrows THEN Thrown("CallbackError") ELSE Returned("output")

\* catch (err) { console.error(...); throw err }
RethrowSwallowed(outcome) == Returned("undefined")
Rethrow(outcome) == outcome

\* zeroDb.transaction(query, dummyTransactionInput): one new transaction, query
\* run on it, settled as query settles
ZeroDbTransaction(n, cbThrows) ==
    [tx |-> OpenedTx(n + 1), opened |-> n + 1, outcome |-> CallbackOutcome(cbThrows)]

\* the contexts of the code of activation t: those of its scope while it is in
\* flight, none before and after
CallerCtx(t) == IF act[t].state = "suspended" THEN CurrentCtx(t) ELSE TopCtx

Transaction(t, cbThrows) ==
    /\ pc = "idle"
    /\ isServer
    /\ opened < MaxOpened
    /\ LET ctx == CallerCtx(t) IN
       IF UsesContextTx(ctx)
       THEN /\ lastTx' = [ctx |-> ctx, cbThrows |-> cbThrows,
                          ranOn |-> ContextTx(MutatorContext(ctx).v),
                          openedBefore |-> opened,
                          outcome |-> Rethrow(CallbackOutcome(cbThrows))]
            /\ UNCHANGED opened
       ELSE LET r == ZeroDbTransaction(opened, cbThrows) IN
            /\ lastTx' = [ctx |-> ctx, cbThrows |-> cbThrows, ranOn |-> r.tx,
                          openedBefore |-> opened, outcome |-> Rethrow(r.outcome)]
            /\ opened' = r.opened
    /\ UNCHANGED <<validateQuery, defaultMutateAuthData, served>>
    /\ UNCHANGED <<evalVars, ctxVars, taskVars, viewVars, regVars>>

InitTx ==
    /\ InitCtx
    /\ isServer

NextTx ==
    \/ \E t \in Tasks, a \in Identities : RunWithContext(t, a)
    \/ \E t \in Tasks, a \in Identities : RunWithQueryContext(t, a)
    \/ \E t \in Tasks : Complete(t)
    \/ \E t \in Tasks, cbThrows \in BOOLEAN : Transaction(t, cbThrows)

SpecTx == InitTx /\ [][NextTx]_vars

(***************************************************************************)
(* createZeroServer.ts handleQueryRequest: the callback given to zero's    *)
(* handleQueryRequest, called with the name and args of each query of the  *)
(* request                                                                 *)
(***************************************************************************)

\* the queries a request can name: on-zero's permission queries and the
\* application's registry (mustGetQuery throws for a name not in it)
UserQueries == {"post.all"}
QueryNames == {"permission.post", "permission.widget"} \cup UserQueries \cup {"post.nope"}

\* name.startsWith('permission.') and name.slice('permission.'.length)
IsPermissionName(name) == name \in {"permission.post", "permission.widget"}
TableOfName(name) == IF name = "permission.post" THEN "post" ELSE "widget"

\* validateQuery({ authData, queryName, params }): does the configured hook throw
HookThrows(hookFn, a, name, params) ==
    \/ hookFn = "rejectAll"
    \/ hookFn = "requireAuth" /\ a = "null"

HandleQueryRequest(reqAuth, name, objOrId) ==
    /\ pc = "idle"
    /\ isServer
    /\ LET ctx == QueryCtx(IF reqAuth = "null" THEN "empty" ELSE reqAuth)
           table == TableOfName(name)
           perm == GetMutationsPermissions(table)
           call == [authData |-> reqAuth, queryName |-> name, params |-> objOrId]
       IN IF IsPermissionName(name)
          THEN LET r == IF perm = NoPerm
                        THEN [out |-> OThrow("UnregisteredRule"),
                              st |-> EvalState(evaluatingPermission)]
                        ELSE BuildPermissionQuery(reqAuth, perm, objOrId, table,
                                                  EvalState(evaluatingPermission), ctx)
               IN /\ last' = Done("server", perm, table, objOrId, reqAuth, ctx, r)
                  /\ evaluatingPermission' = r.st.flag
                  /\ served' = [name |-> name, auth |-> reqAuth, params |-> objOrId,
                                hookCalls |-> <<>>, executed |-> r.out.t # "throw",
                                err |-> IF r.out.t = "throw" THEN r.out.err ELSE ""]
          ELSE /\ UNCHANGED <<last, evaluatingPermission>>
               /\ served' =
                     [name |-> name, auth |-> reqAuth, params |-> objOrId,
                      hookCalls |-> IF validateQuery # "undefined" THEN <<call>> ELSE <<>>,
                      executed |-> /\ ~HookThrows(validateQuery, reqAuth, name, objOrId)
                                   /\ name \in UserQueries,
                      err |-> IF HookThrows(validateQuery, reqAuth, name, objOrId)
                              THEN "Rejected"
                              ELSE IF name \notin UserQueries THEN "QueryNotFound" ELSE ""]
    /\ UNCHANGED <<isServer, permissionStrategy, mutationsPermissions, authData,
                   pc, pending, inner>>
    /\ UNCHANGED <<validateQuery, defaultMutateAuthData, opened, lastTx>>
    /\ UNCHANGED <<ctxVars, taskVars, viewVars, regVars>>

InitQueries ==
    /\ isServer = TRUE
    /\ permissionStrategy = "optimistic"
    /\ \E n \in LeafFns :
          mutationsPermissions =
              [t \in Tables |-> IF t = "post" THEN Where2("post", n, TRUE) ELSE NoPerm]
    /\ authData = "null"
    /\ evaluatingPermission = FALSE
    /\ pc = "idle"
    /\ pending = NoPending
    /\ inner = Where2("post", "isAdmin", TRUE)
    /\ last = NoLast
    /\ act = [t \in Tasks |-> NoActivation]
    /\ frames = [t \in Tasks |-> <<>>]
    /\ left = [t \in Tasks |-> NoFrame]
    /\ push = [t \in Tasks |-> NoPush]
    /\ hook = NoHook
    /\ instances = <<>>
    /\ WhereRawBuilderMap = [k \in RegKeys |-> Absent]
    /\ WhereTableNameMap = [k \in RegKeys |-> "undefined"]
    /\ lastWhere = NoWhere
    /\ invocations = 0
    /\ validateQuery \in Hooks
    /\ defaultMutateAuthData = NoFields
    /\ served = NoServed
    /\ opened = 0
    /\ lastTx = NoTx

NextQueries ==
    \E reqAuth \in Identities, name \in QueryNames, objOrId \in Targets :
        HandleQueryRequest(reqAuth, name, objOrId)

SpecQueries == InitQueries /\ [][NextQueries]_vars

(***************************************************************************)
(* queryContext.ts usePermission over createUseQuery.tsx useQuery: one     *)
(* call site on a client, the synced query permission.<table> behind it,   *)
(* and the value each render returns.  The query's life, unknown, then the *)
(* client's own evaluation, then the server's answer, is the sync engine's.*)
(***************************************************************************)

\* use(DisabledContext): createContext(false), and no Provider is ever rendered
Disabled == FALSE

\* permissionCheckFns[table]: a check function exists for the tables with a rule
CheckFnOf(table) == GetMutationsPermissions(table) # NoPerm

\* { enabled: Boolean(!disabled && enabled && objOrId && checkFn) }
QueryEnabled(h) == ~Disabled /\ h.enabled /\ ~Falsy(h.objOrId) /\ CheckFnOf(h.table)

\* createUseQuery.tsx EMPTY_RESPONSE
EmptyResponse == [data |-> "none", type |-> "unknown"]

\* zeroUseQuery(queryRequest, options): nothing known of a query that is switched
\* off or has no result yet, otherwise the row found, if any
ZeroUseQuery(h, enabled) ==
    IF ~enabled \/ h.phase = "unknown" THEN [data |-> "none", type |-> "unknown"]
    ELSE [data |-> h.data, type |-> "complete"]

\* createUseQuery.tsx useQuery
UseQuery(h, enabled) == IF Disabled THEN EmptyResponse ELSE ZeroUseQuery(h, enabled)

\* usePermission(table, objOrId, enabled): "true", "false" or "null"
UsePermissionGuess(h) ==
    IF Falsy(h.objOrId) THEN "false"
    ELSE IF UseQuery(h, QueryEnabled(h)).type = "unknown" THEN "null"
    ELSE IF h.guess = "row" THEN "true" ELSE "false"
UsePermissionStatusFirst(h) ==
    IF UseQuery(h, QueryEnabled(h)).type = "unknown" THEN "null"
    ELSE IF Falsy(h.objOrId) THEN "false"
    ELSE IF UseQuery(h, QueryEnabled(h)).data = "row" THEN "true" ELSE "false"
UsePermission(h) ==
    IF Falsy(h.objOrId) THEN "false"
    ELSE IF UseQuery(h, QueryEnabled(h)).type = "unknown" THEN "null"
    ELSE IF UseQuery(h, QueryEnabled(h)).data = "row" THEN "true" ELSE "false"

\* a render of the call site: the value returned, and whether the server's answer
\* has been returned for this target
Rendered(h) ==
    [h EXCEPT !.value = UsePermission(h),
              !.sawAuthoritative = @ \/ (h.phase = "authoritative" /\ UsePermission(h) # "null")]

\* the component renders usePermission(table, objOrId, enabled); another target is
\* another query
RenderPermission(objOrId, enabled) ==
    /\ pc = "idle"
    /\ hook' = Rendered(IF objOrId = hook.objOrId
                        THEN [hook EXCEPT !.enabled = enabled]
                        ELSE [NoHook EXCEPT !.objOrId = objOrId, !.enabled = enabled])
    /\ UNCHANGED <<evalVars, ctxVars, taskVars, regVars, srvVars>>

\* the client has run the check function for the target and the local view holds
\* the row or not
ClientEvaluates ==
    /\ pc = "idle"
    /\ QueryEnabled(hook)
    /\ hook.phase = "unknown"
    /\ last.op = "check" /\ last.table = hook.table /\ last.target = hook.objOrId
    /\ last.out.t = "cond"
    /\ LET found == IF Satisfiable(last.out) THEN "row" ELSE "norow" IN
          hook' = Rendered([hook EXCEPT !.phase = "guess", !.guess = found, !.data = found])
    /\ UNCHANGED <<evalVars, ctxVars, taskVars, regVars, srvVars>>

\* the server's result for the query arrives and replaces the local one
ServerResponds(decision) ==
    /\ pc = "idle"
    /\ QueryEnabled(hook)
    /\ hook.phase \in {"unknown", "guess"}
    /\ hook' = Rendered([hook EXCEPT !.phase = "authoritative", !.server = decision,
                                      !.data = IF decision = "grant" THEN "row" ELSE "norow"])
    /\ UNCHANGED <<evalVars, ctxVars, taskVars, regVars, srvVars>>

InitView ==
    /\ Init
    /\ ~isServer

NextView ==
    \/ \E a \in Identities : SetAuthData(a)
    \/ \E objOrId \in Targets, enabled \in BOOLEAN : RenderPermission(objOrId, enabled)
    \/ QueryEnabled(hook) /\ CheckFnOptimistic(hook.table, hook.objOrId)
    \/ OptimisticTry
    \/ OptimisticFinally
    \/ QueryEnabled(hook) /\ CheckFnDeny(hook.table, hook.objOrId)
    \/ QueryEnabled(hook) /\ CheckFnAllow(hook.table, hook.objOrId)
    \/ ClientEvaluates
    \/ \E decision \in {"grant", "deny"} : ServerResponds(decision)

SpecView == InitView /\ [][NextView]_vars

(***************************************************************************)
(* where.ts where(), getRawWhere(), getWhereTableName() on wrapper         *)
(* instances                                                               *)
(***************************************************************************)

\* WhereRawBuilderMap.set(wrappedWhereFn, whereFn)
RawBuilderSetWrapped(map, key, whereFn) == [map EXCEPT ![key] = key]
RawBuilderSetAll(map, key, whereFn) ==
    [k \in DOMAIN map |-> IF k = key \/ map[k] # Absent THEN whereFn ELSE map[k]]
RawBuilderSet(map, key, whereFn) == [map EXCEPT ![key] = whereFn]

\* if (b) { WhereTableNameMap.set(wrappedWhereFn, a) }
TableNameSetNever(map, key, shape, table) == map
TableNameSet(map, key, shape, table) ==
    IF shape = 2 THEN [map EXCEPT ![key] = table] ELSE map

\* getRawWhere(where) / getWhereTableName(where)
RawBuilderGet(f) == IF f \in DOMAIN WhereRawBuilderMap THEN WhereRawBuilderMap[f] ELSE Absent
TableNameGet(f) ==
    IF f \in DOMAIN WhereTableNameMap THEN WhereTableNameMap[f] ELSE "undefined"

\* the number of wrappers registered with a raw predicate
Registered == Cardinality({k \in RegKeys : WhereRawBuilderMap[k] # Absent})

\* where(tableName, builder, isServerOnly) (shape 2) and where(builder) (shape 1):
\* a new closure over whereFn = b || a and isServerOnly, registered and returned
WhereCall(shape, table, builder, isServerOnly) ==
    /\ pc = "idle"
    /\ Len(instances) < MaxWrappers
    /\ LET wrappedWhereFn == WrapVal(Len(instances) + 1) IN
          /\ instances' = Append(instances,
                                 [whereFn |-> builder, isServerOnly |-> isServerOnly,
                                  shape |-> shape, table |-> table])
          /\ WhereRawBuilderMap' = RawBuilderSet(WhereRawBuilderMap, wrappedWhereFn, builder)
          /\ WhereTableNameMap' = TableNameSet(WhereTableNameMap, wrappedWhereFn, shape, table)
          /\ lastWhere' = [shape |-> shape, table |-> table, builder |-> builder,
                           result |-> wrappedWhereFn, registered |-> Registered]
    /\ UNCHANGED invocations
    /\ UNCHANGED <<evalVars, ctxVars, taskVars, viewVars, srvVars>>

RECURSIVE EvalFn(_, _, _)
\* what calling the function f with identity b produces while the flag is as given
EvalFn(f, b, flag) ==
    IF f.kind = "raw" THEN CallRaw(f.name, b, EvalState(flag), TopCtx).out
    ELSE IF f.kind = "wrapper" /\ f.id <= Len(instances)
    THEN (IF ShortCircuit(instances[f.id].isServerOnly, flag) THEN OCond(And0)
          ELSE Normalize(EvalFn(instances[f.id].whereFn, b, flag)))
    ELSE ONone

\* a query invokes a wrapper; no registration is touched
InvokeInstance(i, b) ==
    /\ pc = "idle"
    /\ i <= Len(instances)
    /\ invocations < MaxInvocations
    /\ EvalFn(WrapVal(i), b, evaluatingPermission) # ONone
    /\ invocations' = invocations + 1
    /\ UNCHANGED <<instances, WhereRawBuilderMap, WhereTableNameMap, lastWhere>>
    /\ UNCHANGED <<evalVars, ctxVars, taskVars, viewVars, srvVars>>

\* the functions the application can hand to where(): its own and wrappers it has
Builders == {RawVal(n) : n \in RegFns} \cup {WrapVal(i) : i \in 1..Len(instances)}

NextReg ==
    \/ \E builder \in Builders : WhereCall(1, "undefined", builder, FALSE)
    \/ \E table \in Tables, builder \in Builders, so \in BOOLEAN :
          WhereCall(2, table, builder, so)
    \/ \E i \in 1..MaxWrappers, b \in Identities : InvokeInstance(i, b)

SpecReg == InitCtx /\ [][NextReg]_vars

(***************************************************************************)
(* Properties                                                              *)
(***************************************************************************)
Range(seq) == {seq[i] : i \in 1..Len(seq)}

\* every wrapper invocation on record: of the last call and of the one in progress
WrapperCalls == Range(last.wcalls) \cup Range(pending.wcalls)

\* C1: a server-only wrapper invoked on the client with the evaluating-permission
\* flag false returns eb.and() and does not call the wrapped function
C1_ClientShortCircuit ==
    /\ \A e \in WrapperCalls :
          (e.w.isServerOnly /\ ~isServer /\ ~e.flag) => (e.out = OCond(And0) /\ e.n = 0)
    /\ (last.op = "where" /\ last.fn.isServerOnly /\ ~isServer)
          => (last.out = OCond(And0) /\ last.calls = <<>>)

C1_Witness ==
    /\ ~isServer
    /\ last.op = "where"
    /\ last.fn = Where2("post", "deny", TRUE)
    /\ last.out = OCond(And0)
    /\ last.calls = <<>>

\* what the wrapped function returns for an identity, normalised as the wrapper does:
\* true -> 0 = 0, false -> 1 = 0, a condition unchanged, a throw propagated
ExpectedOfLeaf(n, b) ==
    CASE n = "allow" -> OCond(CmpLit("0", "0"))
      [] n = "deny" -> OCond(CmpLit("1", "0"))
      [] n = "isAdmin" -> IF b = "admin" THEN OCond(CmpLit("0", "0")) ELSE OCond(CmpLit("1", "0"))
      [] n = "owner" -> OCond(Cmp("ownerId", IF b = "admin" THEN "A" ELSE IF b = "user" THEN "B" ELSE "undefined"))
      [] OTHER -> OThrow("EvaluationFailure")

\* C2: a server-only wrapper invoked with the flag true, or on the server, calls the
\* wrapped function with the identity it was given and returns its normalised result
C2_EvaluatesWhenFlagOrServer ==
    /\ \A e \in WrapperCalls :
          (e.w.isServerOnly /\ (e.flag \/ isServer)) =>
              /\ e.n >= 1
              /\ e.w.whereFn \in LeafFns => e.out = ExpectedOfLeaf(e.w.whereFn, e.auth)
    /\ (last.op = "where" /\ last.fn.isServerOnly /\ isServer) =>
          /\ Len(last.calls) >= 1
          /\ last.calls[1].fn = last.fn.whereFn
          /\ last.auth # "undefined" => last.calls[1].auth = last.auth

C2_Witness ==
    /\ ~isServer
    /\ last.op = "check"
    /\ \E e \in Range(last.wcalls) :
          /\ e.flag
          /\ e.w = Where2("post", "deny", TRUE)
          /\ e.n = 1
          /\ e.out = OCond(CmpLit("1", "0"))

\* C3: a permission check for a table without a registered rule throws
\* UnregisteredRule, on the client under every strategy and on the server
C3_UnregisteredThrows ==
    (last.op \in {"check", "server"} /\ last.fn = NoPerm)
        => (last.out.t = "throw" /\ last.out.err = "UnregisteredRule")

\* C4: with no registered rule and a target supplied, no permission check yields
\* a satisfiable condition
C4_UnregisteredFailsClosed ==
    (last.op \in {"check", "server"} /\ last.fn = NoPerm /\ ~Falsy(last.target))
        => ~Satisfiable(last.out)

\* C6: a throw out of an optimistic evaluation reaches the caller as the rule's own
\* error with the flag false, and the next server-only predicate invoked on the
\* client short-circuits to eb.and() without calling its function
C6_FlagResetAfterThrow ==
    /\ (permissionStrategy = "optimistic" /\ last.op = "check" /\ last.out.t = "throw")
          => (last.out.err = "EvaluationFailure" /\ ~evaluatingPermission)
    /\ (permissionStrategy = "optimistic" /\ last.op = "where" /\ last.afterThrow
            /\ last.fn.isServerOnly /\ ~isServer)
          => (last.out = OCond(And0) /\ last.calls = <<>>)

C6_Witness ==
    /\ permissionStrategy = "optimistic"
    /\ ~isServer
    /\ last.op = "where"
    /\ last.afterThrow
    /\ last.fn = Where2("post", "isAdmin", TRUE)
    /\ last.out = OCond(And0)
    /\ last.calls = <<>>

\* C7: with the target absent the outcome is never a satisfiable condition and the
\* rule is not evaluated, on the client and on the server
C7_AbsentTargetUnsatisfiable ==
    (last.op \in {"check", "server"} /\ Falsy(last.target))
        => (~Satisfiable(last.out) /\ last.calls = <<>>)

\* C8: under optimistic-deny with a target and a registered rule the client query is
\* the literal true = false, and neither the rule nor any wrapper is evaluated
C8_DenyUnsatisfiable ==
    (permissionStrategy = "optimistic-deny" /\ last.op = "check"
        /\ ~Falsy(last.target) /\ last.fn # NoPerm)
        => /\ last.out = OQuery(CmpLit("true", "false"), "none")
           /\ ~Satisfiable(last.out)
           /\ last.calls = <<>>
           /\ last.wcalls = <<>>

C8_Witness ==
    /\ permissionStrategy = "optimistic-deny"
    /\ ~isServer
    /\ last.op = "check"
    /\ last.fn = Where2("post", "allow", FALSE)
    /\ last.target = "r1"
    /\ last.auth = "admin"
    /\ ~Satisfiable(last.out)

\* C9: under optimistic-allow with a target, the client condition is satisfiable
\* for every registered rule and identity
C9_AllowSatisfiable ==
    (permissionStrategy = "optimistic-allow" /\ ~isServer /\ last.op = "check"
        /\ ~Falsy(last.target) /\ last.fn # NoPerm)
        => Satisfiable(last.out)

\* C10: under optimistic with a target the registered rule's raw function is called,
\* not its wrapper, with the resolver's identity; for the rule isAdmin the condition
\* is satisfiable exactly for the caller with role admin
C10_OptimisticEvaluatesRaw ==
    (permissionStrategy = "optimistic" /\ last.op = "check"
        /\ ~Falsy(last.target) /\ last.fn # NoPerm)
        => /\ Len(last.calls) >= 1
           /\ last.calls[1] = [fn |-> last.fn.whereFn, auth |-> last.auth]
           /\ \A e \in Range(last.wcalls) : e.w = inner
           /\ last.fn.whereFn = "isAdmin" =>
                 /\ last.out.t = "cond"
                 /\ Satisfiable(last.out) <=> (last.auth = "admin")

C10_Witness ==
    /\ permissionStrategy = "optimistic"
    /\ ~isServer
    /\ last.op = "check"
    /\ last.fn = Where2("post", "isAdmin", TRUE)
    /\ last.target = "r1"
    /\ last.auth = "user"
    /\ ~Satisfiable(last.out)
    /\ last.calls = <<[fn |-> "isAdmin", auth |-> "user"]>>

\* C5: every identity the resolver returns inside an activation, before and after
\* each suspension, is the identity that activation was entered with, whatever other
\* activations are in flight
C5_ContextIsolation ==
    \A t \in Tasks : act[t].state # "new" => act[t].seen = {act[t].ident}

C5_Witness ==
    \E t, u \in Tasks :
        /\ act[t].state = "suspended" /\ act[u].state = "suspended"
        /\ act[t].kind = "mutation" /\ act[u].kind = "query"
        /\ act[t].ident = "admin" /\ act[u].ident = "user"
        /\ act[t].resumes >= 1 /\ act[u].resumes >= 1
        /\ authData = "null"
        /\ act[t].seen = {"admin"} /\ act[u].seen = {"user"}

(***************************************************************************)
(* Scopes: what the run() calls made so far say each store holds           *)
(***************************************************************************)

\* the scopes activation t is inside of, outermost first, as entered
Entered(t) ==
    IF act[t].state # "suspended" THEN <<>>
    ELSE <<[store |-> StoreOf(act[t].kind), value |-> act[t].ident]>>
            \o [i \in 1..Len(frames[t]) |->
                    [store |-> frames[t][i].store, value |-> frames[t][i].value]]

\* the value of the innermost scope of a store among es, Unset when there is none
InnermostOf(es, store) ==
    LET idx == {i \in 1..Len(es) : es[i].store = store} IN
    IF idx = {} THEN Unset
    ELSE es[CHOOSE i \in idx : \A j \in idx : j <= i].value

Innermost(t, store) == InnermostOf(Entered(t), store)

\* C11: the resolver returns the identity of the innermost active mutation context,
\* null included and whatever query context is active; without a mutation context
\* that of the innermost active query context; without either the identity the
\* provider stored last
C11_ResolverPriority ==
    \A t \in Tasks :
        GetQueryOrMutatorAuthData(CurrentCtx(t)) =
            IF Innermost(t, "mut") # Unset THEN Innermost(t, "mut")
            ELSE IF Innermost(t, "query") # Unset THEN Innermost(t, "query")
            ELSE authData

C11_Witness ==
    /\ act[Chain].state = "suspended"
    /\ act[Chain].kind = "query" /\ act[Chain].ident = "user"
    /\ Len(frames[Chain]) = 1
    /\ frames[Chain][1].store = "mut" /\ frames[Chain][1].value = "null"
    /\ authData = "admin"
    /\ GetQueryOrMutatorAuthData(CurrentCtx(Chain)) = "null"

\* C12: getScopedAuthData returns the mutation context's identity when one is
\* active, otherwise the auth-only scope's value, null included, and undefined only
\* when neither is active
C12_ScopedUnknownDistinct ==
    \A t \in Tasks :
        GetScopedAuthData(CurrentCtx(t)) =
            IF Innermost(t, "mut") # Unset THEN Innermost(t, "mut")
            ELSE IF Innermost(t, "scope") # Unset THEN Innermost(t, "scope")
            ELSE "undefined"

\* C18: mutatorContext() throws when no mutation context is active and returns no
\* value then; inside runWithContext(ctx, fn) it returns ctx
C18_MutatorContextThrows ==
    \A t \in Tasks :
        IF Innermost(t, "mut") = Unset
        THEN /\ MutatorContext(CurrentCtx(t)).t = "throw"
             /\ MutatorContext(CurrentCtx(t)).err = "ContextMissing"
        ELSE MutatorContext(CurrentCtx(t)) = Returned(Innermost(t, "mut"))

C18_Witness ==
    /\ act[Chain].state = "suspended"
    /\ act[Chain].kind = "query"
    /\ Len(frames[Chain]) = 1 /\ frames[Chain][1].store = "scope"
    /\ MutatorContext(CurrentCtx(Chain)).t = "throw"

\* the innermost scope activation t is inside of and the ones around it
InnermostFrame(t) == frames[t][Len(frames[t])]
Around(t) == SubSeq(Entered(t), 1, Len(Entered(t)) - 1)

\* C19: inside run(v2, g) called in a scope of the same store get() returns v2; once
\* g has completed get() returns the value of the scope around it again; once the
\* outermost run has completed get() returns absence
C19_NestedScopes ==
    \A t \in Tasks :
        /\ (act[t].state = "suspended" /\ frames[t] # <<>>) =>
               Get(CurrentCtx(t), InnermostFrame(t).store) = InnermostFrame(t).value
        /\ (act[t].state = "suspended" /\ left[t] # NoFrame) =>
               Get(CurrentCtx(t), left[t].store) = Innermost(t, left[t].store)
        /\ act[t].state = "done" =>
               \A store \in Stores : Get(CurrentCtx(t), store) = Unset

C19_Witness ==
    /\ act[Chain].state = "suspended"
    /\ act[Chain].kind = "mutation" /\ act[Chain].ident = "admin"
    /\ frames[Chain] = <<>>
    /\ left[Chain].store = "mut" /\ left[Chain].value = "user"
    /\ Get(CurrentCtx(Chain), "mut") = "admin"

\* C20: entering a scope of one store and leaving it leave what the other two
\* stores hold as it was
C20_StoreIndependence ==
    \A t \in Tasks :
        /\ (act[t].state = "suspended" /\ frames[t] # <<>>) =>
               \A store \in Stores \ {InnermostFrame(t).store} :
                   Get(CurrentCtx(t), store) = InnermostOf(Around(t), store)
        /\ (act[t].state = "suspended" /\ left[t] # NoFrame) =>
               \A store \in Stores \ {left[t].store} :
                   Get(CurrentCtx(t), store) = Innermost(t, store)
        /\ (act[t].state = "suspended" /\ frames[t] = <<>>) =>
               \A store \in Stores \ {StoreOf(act[t].kind)} :
                   Get(CurrentCtx(t), store) = Unset

C20_Witness ==
    /\ act[Chain].state = "suspended"
    /\ act[Chain].kind = "query" /\ act[Chain].ident = "user"
    /\ Len(frames[Chain]) = 1
    /\ frames[Chain][1].store = "scope" /\ frames[Chain][1].value = "admin"
    /\ ~IsInZeroMutation(CurrentCtx(Chain))
    /\ IsInQueryContext(CurrentCtx(Chain))
    /\ QueryAuthData(CurrentCtx(Chain)) = "user"

\* the identity of the request: the one given or resolved, null when there is none
RequestIdentity(r) == IF push[r].authData = "undefined" THEN "null" ELSE push[r].authData

\* C13: the tasks a mutation queued are started only once its processing has
\* completed, in an auth-only scope holding the identity of the request, and
\* getScopedAuthData() inside them returns that identity
C13_DetachedTasksScope ==
    \A r \in Tasks :
        push[r].scope # Unset =>
            /\ push[r].startedWhile = "completed"
            /\ push[r].state \in {"detached", "done"}
            /\ push[r].scope = RequestIdentity(r)
            /\ push[r].seen \subseteq {RequestIdentity(r)}

\* C14: once usePermission has returned the server's answer for a target it does
\* not return null for that target again, whatever enabled is passed afterwards
C14_NeverBackToUnknown ==
    hook.sawAuthoritative => hook.value # "null"

C16_StrategyBeforeServer ==
    (QueryEnabled(hook) /\ hook.phase # "authoritative") =>
        /\ permissionStrategy = "optimistic-deny" => hook.value = "false"
        /\ permissionStrategy = "optimistic-allow" => hook.value = "true"

C21_RawEquivalent ==
    \A i \in 1..Len(instances) : \A b \in Identities, flag \in BOOLEAN :
        /\ RawBuilderGet(WrapVal(i)) # Absent
        /\ EvalFn(RawBuilderGet(WrapVal(i)), b, flag) = EvalFn(instances[i].whereFn, b, flag)

C21_Witness ==
    /\ ~isServer
    /\ invocations = MaxInvocations
    /\ Len(instances) >= 1
    /\ instances[1].whereFn = RawVal("deny") /\ instances[1].isServerOnly
    /\ EvalFn(RawBuilderGet(WrapVal(1)), "user", FALSE) = OBool(FALSE)
    /\ EvalFn(WrapVal(1), "user", FALSE) = OCond(And0)

\* C22: whenever a wrapper calls the function it wraps, a result of true comes back
\* as the comparison 0 = 0, a result of false as 1 = 0, and any other result (a
\* condition, a throw) as it is
C22_BooleanNormalised ==
    \A e \in WrapperCalls :
        e.n >= 1 =>
            LET result == CallRaw(e.w.whereFn, e.auth, EvalState(e.flag), TopCtx).out IN
            /\ (result.t = "bool" /\ result.b) => e.out = OCond(CmpLit("0", "0"))
            /\ (result.t = "bool" /\ ~result.b) => e.out = OCond(CmpLit("1", "0"))
            /\ result.t # "bool" => e.out = result

C22_Witness ==
    /\ last.op = "where"
    /\ last.fn = Where1("isAdmin")
    /\ last.auth = "admin"
    /\ last.calls = <<[fn |-> "isAdmin", auth |-> "admin"]>>
    /\ last.out = OCond(CmpLit("0", "0"))

\* C23: the wrapper a where() call returned is registered with the function it was
\* given; it has a table name exactly when the call had the (table, predicate)
\* shape; a function where() never returned has neither
C23_Registration ==
    /\ lastWhere.shape # 0 =>
          /\ RawBuilderGet(lastWhere.result) = lastWhere.builder
          /\ lastWhere.shape = 2 => TableNameGet(lastWhere.result) = lastWhere.table
          /\ lastWhere.shape = 1 => TableNameGet(lastWhere.result) = "undefined"
    /\ \A k \in RegKeys \ {WrapVal(i) : i \in 1..Len(instances)} :
          RawBuilderGet(k) = Absent /\ TableNameGet(k) = "undefined"

C23_Witness ==
    /\ Len(instances) = 2
    /\ instances[1].shape = 2 /\ instances[2].shape = 1
    /\ TableNameGet(WrapVal(1)) = "widget"
    /\ TableNameGet(WrapVal(2)) = "undefined"
    /\ RawBuilderGet(WrapVal(2)) = RawVal("owner")
    /\ RawBuilderGet(RawVal("owner")) = Absent

\* C24: where() called on a wrapper where() returned before returns that wrapper
\* and adds no registration
C24_RewrapNoOp ==
    (lastWhere.shape # 0 /\ lastWhere.builder.kind = "wrapper") =>
        /\ lastWhere.result = lastWhere.builder
        /\ Registered = lastWhere.registered

\* C25: every wrapper ever returned has the raw predicate and the table name, if
\* any, that its own where() call gave it, whatever where() calls came later
C25_AssociationsImmutable ==
    \A i \in 1..Len(instances) :
        /\ WhereRawBuilderMap[WrapVal(i)] = instances[i].whereFn
        /\ WhereTableNameMap[WrapVal(i)] =
              (IF instances[i].shape = 2 THEN instances[i].table ELSE "undefined")

C25_Witness ==
    /\ Len(instances) = 2
    /\ instances[1].shape = 2 /\ instances[1].table = "post"
    /\ instances[1].whereFn = RawVal("deny")
    /\ instances[2].shape = 2 /\ instances[2].table = "widget"
    /\ instances[2].whereFn = WrapVal(1)
    /\ WhereTableNameMap[WrapVal(1)] = "post"
    /\ WhereRawBuilderMap[WrapVal(1)] = RawVal("deny")

\* C30: a wrapper invoked without an identity hands the wrapped function what the
\* identity resolver returns at that moment; invoked with an identity, null
\* included, it hands over that identity
C30_IdentityDefault ==
    (last.op = "where" /\ Len(last.calls) >= 1) =>
        /\ last.auth = "undefined" => last.calls[1].auth = last.resolver
        /\ last.auth # "undefined" => last.calls[1].auth = last.auth

C30_Witness ==
    /\ last.op = "where"
    /\ last.auth = "null"
    /\ last.resolver = "admin"
    /\ last.fn = Where1("isAdmin")
    /\ last.calls = <<[fn |-> "isAdmin", auth |-> "null"]>>
    /\ last.out = OCond(CmpLit("1", "0"))

\* C28: the evaluating-permission flag is false initially and whenever no
\* evaluation is in progress; it is true only between the entry and the exit of an
\* optimistic-strategy callback, so a predicate invoked by anything else sees it false
C28_FlagOnlyInsideEvaluation ==
    /\ pc = "idle" => ~evaluatingPermission
    /\ evaluatingPermission => (permissionStrategy = "optimistic" /\ pc \in {"try", "finally"})
    /\ \A e \in Range(last.wcalls) :
          e.flag => (last.op = "check" /\ permissionStrategy = "optimistic")

C28_Witness ==
    /\ pc = "finally"
    /\ evaluatingPermission
    /\ pending.out.t = "throw"
    /\ last = NoLast

\* C29: every server-only wrapper invoked from inside the rule during an
\* optimistic evaluation calls the function it wraps, also when the rule has had
\* another permission evaluated in between
C29_NestedBypassThroughout ==
    /\ (last.op = "check" /\ permissionStrategy = "optimistic") =>
          \A e \in Range(last.wcalls) : e.w.isServerOnly => e.n >= 1
    /\ pc = "finally" =>
          \A e \in Range(pending.wcalls) : e.w.isServerOnly => e.n >= 1

\* C26: with a validateQuery hook configured, every query the server resolves for
\* a request has had the hook called once with the request's identity, the query's
\* name and its params, and a query the hook throws for is not executed
C26_ValidatedBeforeExecution ==
    (validateQuery # "undefined" /\ served.name # "") =>
        /\ served.hookCalls = <<[authData |-> served.auth, queryName |-> served.name,
                                 params |-> served.params]>>
        /\ HookThrows(validateQuery, served.auth, served.name, served.params)
              => ~served.executed

\* C27: a zeroServer.mutate call that was passed an identity, or resolved one from
\* the mutation context or auth scope, runs its mutators with exactly that
\* identity's fields; only a call with neither runs with defaultMutateAuthData
C27_DefaultOnlyWithoutIdentity ==
    \A r \in Tasks :
        push[r].via = "mutate" =>
            IF push[r].authData \in {"undefined", "null"}
            THEN push[r].runsWith = defaultMutateAuthData
            ELSE push[r].runsWith = Fields(push[r].authData)

\* C36: what usePermission returned at the last render: false whenever there is no
\* target, whatever the query's status and the strategy; null exactly when there is a
\* target and the query's status is unknown; otherwise whether the query has a row
C36_FailsClosedWithoutTarget ==
    LET out == UseQuery(hook, QueryEnabled(hook)) IN
    /\ Falsy(hook.objOrId) => hook.value = "false"
    /\ hook.value = "null" <=> (~Falsy(hook.objOrId) /\ out.type = "unknown")
    /\ (~Falsy(hook.objOrId) /\ out.type # "unknown") =>
          hook.value = (IF out.data = "row" THEN "true" ELSE "false")

C36_Witness ==
    /\ hook.objOrId = "undefined"
    /\ hook.enabled
    /\ UseQuery(hook, QueryEnabled(hook)).type = "unknown"
    /\ hook.value = "false"

\* the caller on whose behalf server code in the contexts ctx runs: the active
\* mutation's, else the auth-only scope's, else unknown
OriginatingCaller(ctx) ==
    IF ctx.mut # Unset THEN ctx.mut
    ELSE IF ctx.scope # Unset THEN ctx.scope
    ELSE "undefined"

\* C31: a zeroServer.mutate call runs its mutators as the identity passed to it, and
\* without one as the caller of the mutation context it was called in or, outside
\* any, of the auth-only scope
C31_MutateRunsAsCaller ==
    \A r \in Tasks :
        push[r].via = "mutate" =>
            LET caller == IF push[r].arg # "undefined" THEN push[r].arg
                          ELSE OriginatingCaller(push[r].caller)
            IN caller # "undefined" => push[r].runsWith = Fields(caller)

\* C33: the identity in the auth-only scope of the tasks a zeroServer.mutate call
\* detaches has the fields of the identity its mutators ran with
C33_TasksSeeMutatorsIdentity ==
    \A r \in Tasks :
        (push[r].via = "mutate" /\ push[r].state = "detached") =>
            Fields(push[r].scope) = push[r].runsWith

\* C32: while the server resolves a query of a request, the identity resolver
\* returns the authData the handler was called with, null for an unauthenticated
\* request
C32_ResolverSeesRequestIdentity ==
    (served.name # "" /\ last.op = "server") => last.resolver = last.auth

\* C34: a transaction(cb) call made while a mutation context is active runs cb on
\* that context's transaction and opens none; made outside one it opens exactly one
\* and runs cb on it; either way what cb throws is what the call throws
C34_TransactionReuse ==
    lastTx # NoTx =>
        /\ lastTx.ctx.mut # Unset =>
              /\ lastTx.ranOn = ContextTx(lastTx.ctx.mut)
              /\ opened = lastTx.openedBefore
        /\ lastTx.ctx.mut = Unset =>
              /\ opened = lastTx.openedBefore + 1
              /\ lastTx.ranOn = OpenedTx(opened)
        /\ lastTx.cbThrows => lastTx.outcome = Thrown("CallbackError")
        /\ ~lastTx.cbThrows => lastTx.outcome.t = "ok"

C34_Witness ==
    /\ opened = 1
    /\ lastTx.ctx = MutCtx("user")
    /\ lastTx.ranOn = ContextTx("user")
    /\ lastTx.openedBefore = 1
    /\ lastTx.cbThrows
    /\ lastTx.outcome = Thrown("CallbackError")

\* C35: once handleMutationRequest has returned, what it returned is the processor's
\* response and the queued tasks, whether its tasks are still running, have failed or
\* have finished; every queued task was started, or none with skipAsyncTasks
C35_ResponseIndependentOfTasks ==
    \A r \in Tasks :
        (push[r].via = "push" /\ push[r].state \in {"detached", "done"}) =>
            /\ push[r].outcome = Returned(push[r].response)
            /\ push[r].response \in ResponsesOf("push")
            /\ push[r].tasksReturned = push[r].queued
            /\ push[r].started = (IF push[r].skip THEN 0 ELSE push[r].queued)
            /\ push[r].running + push[r].failed <= push[r].started

C35_Witness ==
    \E r \in Tasks :
        /\ push[r].via = "push"
        /\ push[r].state = "detached"
        /\ push[r].queued = 2 /\ push[r].started = 2
        /\ push[r].failed = 1 /\ push[r].running = 1
        /\ push[r].response = "rejected"
        /\ push[r].outcome = Returned("rejected")

====
